---- MODULE Spec2Model ----
(***************************************************************************)
(* A model of plasma-wallet-tracker: the wallet listener manager           *)
(* (internal/usecase/wallet_tracker.go), the command dispatch              *)
(* (usecase CommandHandler, redis Subscriber), the block scan and transfer *)
(* extraction (internal/infrastructure/blockchain/plasma_client.go) and    *)
(* the token symbol cache.                                                 *)
(***************************************************************************)
EXTENDS Integers, Sequences, FiniteSets, TLC

\* ------------------------------------------------------------------ bounds

\* longest subscriber list an AddWallet may produce
MaxSubs == 2
\* listener tasks (contexts) ever created by the manager
MaxTasks == 2
\* command handlers started by the consumer and not yet run
MaxInflight == 2
\* AddWallet/RemoveWallet calls counted for the tracked (address, user) pair
MaxCalls == 4
\* new-head events delivered, over all subscriptions
MaxHeaders == 1
\* transactions in one block
MaxBlockLen == 2
\* getTokenSymbol calls that may be in progress at once
MaxResolvers == 2
\* new-head events delivered in a burst the consumer lags behind
MaxBurstHeaders == 52
\* logs in the receipt of a transaction whose transfers are extracted
MaxLogs == 2

\* headers delivered where fetches fail
MaxFetchHeaders == 2

\* commands whose consumption order is recorded
MaxConsumed == 3

\* make(chan domain.Transaction, 100)
TxChanCapacity == 100

\* -------------------------------------------------------------- addresses

\* common.Address values (20 bytes), named by their last byte
ZeroAddress == "00"

ChainAddresses == {"00", "a1", "a2", "b3", "c4"}

\* the Go string "" (a nil *common.Address renders as the empty string)
EmptyString == << >>

\* common.Address.Hex(): the "0x"-prefixed rendering of an address
Hex(a) ==
    <<"0x", a>>

\* common.HexToAddress: parses the rendering back; a string that is no
\* rendering of an address (the empty string among them) yields the zero address
HexToAddress(s) ==
    IF \E a \in ChainAddresses : s = Hex(a)
    THEN CHOOSE a \in ChainAddresses : s = Hex(a)
    ELSE ZeroAddress

\* ------------------------------------------------------------- input sets

\* domain.WalletAddress values the commands name
Addrs == {Hex("a1"), Hex("a2")}

Users == {1, 2}

AddWalletCommand == "add_wallet"

RemoveWalletCommand == "remove_wallet"

\* a type string that is neither of the two known command types
UnknownCommand == "foo"

CommandTypes == {AddWalletCommand, RemoveWalletCommand, UnknownCommand}

\* the decoded commands the consumer may receive
Commands ==
    [type : {AddWalletCommand, RemoveWalletCommand}, walletAddress : Addrs, userID : Users]
        \cup {[type |-> UnknownCommand, walletAddress |-> Hex("a1"), userID |-> 1]}

\* msg.Payload of a message on the commands channel: a JSON object with the
\* fields type, wallet_address and user_id, or a text that is no JSON object.
\* A field value is a JSON string or a JSON number.
JSONString(x) == <<"string", x>>

JSONNumber(x) == <<"number", x>>

\* json.Marshal of a command
Marshal(cmd) ==
    [object |-> TRUE, type |-> JSONString(cmd.type),
     wallet_address |-> JSONString(cmd.walletAddress), user_id |-> JSONNumber(cmd.userID)]

\* payloads that do not decode: no JSON at all, and an object whose user_id
\* is a string
NotJSON ==
    [object |-> FALSE, type |-> JSONString(""), wallet_address |-> JSONString(""),
     user_id |-> JSONNumber(0)]

StringUserID ==
    [object |-> TRUE, type |-> JSONString(AddWalletCommand),
     wallet_address |-> JSONString(Hex("a1")), user_id |-> JSONString("1")]

Payloads ==
    {Marshal(cmd) : cmd \in Commands} \cup {NotJSON, StringUserID}

\* json.Unmarshal([]byte(msg.Payload), &cmd): an error for a text that is no
\* JSON object and for a field whose JSON type does not fit the Go type
\* (string, string, int64)
Unmarshal(payload) ==
    IF /\ payload.object
       /\ payload.type[1] = "string"
       /\ payload.wallet_address[1] = "string"
       /\ payload.user_id[1] = "number"
    THEN [ok  |-> TRUE,
          cmd |-> [type |-> payload.type[2], walletAddress |-> payload.wallet_address[2],
                   userID |-> payload.user_id[2]]]
    ELSE [ok |-> FALSE, cmd |-> [type |-> "", walletAddress |-> EmptyString, userID |-> 0]]

\* the messages of the two error logs of the dispatch path
UnmarshalFailed == "Failed to unmarshal command"

UnknownCommandType == "Unknown command type"

\* ------------------------------------------------------------------ state

VARIABLES
    listeners,    \* wt.listeners: address -> cancel handle (the task it cancels)
    subscribers,  \* wt.subscribers: address -> list of user ids
    tasks,        \* every listener task spawned so far, with its context
    inflight,     \* handlers started by `go handler(cmd)` that have not run yet
    ctxDone,      \* main's ctx has been cancelled
    stopped,      \* Start has returned from stopAllListeners
    consumerDone, \* SubscribeCommands has returned
    logged,       \* the error messages the consumer and the handlers have logged
    consumed,     \* history: the commands handed to `go handler`, in order, while recorded
    tracked,      \* the (address, user) pair whose calls are counted
    kAdd,         \* AddWallet calls made for the tracked pair
    jRem,         \* RemoveWallet calls made for the tracked pair
    under,        \* some counted RemoveWallet for the tracked pair found no entry
    counting,     \* the calls for the tracked pair are still being counted
    headers,      \* new-head events delivered so far, over all subscriptions
    handedOff,    \* (task, transaction) pairs a block scan has sent on its txChan
    published,    \* (task, transaction) pairs PublishNotification was called with
    repeated,     \* (task, transaction) pairs published more than once
    tokenCache,   \* pc.tokenCache: token address -> symbol
    resolvers,    \* the getTokenSymbol calls in progress
    args,         \* the arguments of the transfer functions called on their own
    ret,          \* what those calls returned
    mu,           \* wt.mu: the goroutine holding the write lock, those holding read locks
    goroutines    \* the goroutines followed through their use of wt.mu

vars == <<listeners, subscribers, tasks, inflight, ctxDone, stopped,
          consumerDone, logged, consumed, tracked, kAdd, jRem, under, counting,
          headers, handedOff, published, repeated, tokenCache, resolvers,
          args, ret, mu, goroutines>>

trackerVars == <<listeners, subscribers, tasks>>

dispatchVars == <<inflight, ctxDone, stopped, consumerDone, logged, consumed>>

countVars == <<tracked, kAdd, jRem, under, counting>>

scanVars == <<headers, handedOff, published, repeated>>

tokenVars == <<tokenCache, resolvers>>

callVars == <<args, ret>>

lockVars == <<mu, goroutines>>

\* ---------------------------------------------------------------- helpers

\* Go map write m[k] = v
MapPut(m, k, v) ==
    [x \in (DOMAIN m) \cup {k} |-> IF x = k THEN v ELSE m[x]]

\* Go delete(m, k)
MapDelete(m, k) ==
    [x \in (DOMAIN m) \ {k} |-> m[x]]

\* Go map read of a slice value: a missing key reads as the nil (empty) slice
SubsOf(walletAddress) ==
    IF walletAddress \in DOMAIN subscribers THEN subscribers[walletAddress] ELSE <<>>

Occurs(s, u) ==
    \E i \in 1..Len(s) : s[i] = u

FirstIndex(s, u) ==
    CHOOSE i \in 1..Len(s) : s[i] = u /\ \A j \in 1..(i - 1) : s[j] # u

Count(s, u) ==
    Cardinality({i \in 1..Len(s) : s[i] = u})

\* a mutation of RemoveFirst: drops every entry equal to u
RemoveEvery(s, u) ==
    SelectSeq(s, LAMBDA x : x # u)

\* the loop of RemoveWallet: append(subscribers[:i], subscribers[i+1:]...) at
\* the first i with subscribers[i] == userID, then break
RemoveFirst(s, u) ==
    LET i == FirstIndex(s, u)
    IN  SubSeq(s, 1, i - 1) \o SubSeq(s, i + 1, Len(s))

\* ------------------------------------------------------ token symbol cache

\* the symbol extractAllTransfers gives the native transfer
NativeSymbol == "XPL"

\* what the symbol() accessor of a token contract returns when the call succeeds
ContractSymbol(tokenAddress) ==
    <<"SYM", tokenAddress>>

\* tokenAddress.Hex()[:8], the degraded symbol
HexPrefix(tokenAddress) ==
    <<"0x", tokenAddress, "..">>

\* getTokenSymbol run without interruption against cache, with callOk the
\* outcome of helper.GetTokenSymbol. Gives the symbol returned, the cache
\* afterwards and whether the external call was issued. (The WXPL case of the
\* switch compares the checksummed Hex() with a lower-case literal.)
getTokenSymbolResult(cache, tokenAddress, callOk) ==
    IF tokenAddress \in DOMAIN cache
    THEN [symbol |-> cache[tokenAddress], cache |-> cache, called |-> FALSE]
    ELSE IF Hex(tokenAddress) = Hex(ZeroAddress)
    THEN [symbol |-> NativeSymbol, cache |-> cache, called |-> FALSE]
    ELSE LET symbol == IF callOk THEN ContractSymbol(tokenAddress)
                       ELSE HexPrefix(tokenAddress)
         IN  [symbol |-> symbol,
              cache  |-> MapPut(cache, tokenAddress, symbol),
              called |-> TRUE]

\* getTokenSymbol as its callers interleave. A resolver r is one caller:
\*   pc      "idle", or the step of getTokenSymbol it is about to take
\*   token   the tokenAddress argument      symbol, ok   the locals symbol, err == nil
\*   result  what its latest call returned
\*   after   when it entered, a call for the same address had already returned
\*           the symbol a successful external call gave it
ResolverIds == 1..MaxResolvers

\* the token addresses getTokenSymbol is called with
TokenInputs == {ZeroAddress, "b3", "c4"}

IdleResolver ==
    [pc |-> "idle", token |-> ZeroAddress, symbol |-> EmptyString, ok |-> FALSE,
     result |-> EmptyString, after |-> FALSE]

\* resolver r has returned from a call for tokenAddress whose external call succeeded
ReturnedResolved(r, tokenAddress) ==
    /\ resolvers[r].pc = "idle"
    /\ resolvers[r].ok
    /\ resolvers[r].token = tokenAddress

\* a caller enters getTokenSymbol(ctx, tokenAddress)
TokenCall(r, tokenAddress) ==
    /\ resolvers[r].pc = "idle"
    /\ resolvers' = [resolvers EXCEPT ![r] =
                        [IdleResolver EXCEPT
                            !.pc = "lookup",
                            !.token = tokenAddress,
                            !.after = \E q \in ResolverIds : ReturnedResolved(q, tokenAddress)]]
    /\ UNCHANGED <<tokenCache, trackerVars, dispatchVars, countVars, callVars, lockVars, scanVars>>

\* the cache read under RLock, and the switch on tokenAddress.Hex()
TokenLookup(r) ==
    /\ resolvers[r].pc = "lookup"
    /\ LET tokenAddress == resolvers[r].token
       IN  resolvers' = [resolvers EXCEPT ![r] =
               IF tokenAddress \in DOMAIN tokenCache
               THEN [@ EXCEPT !.pc = "idle", !.result = tokenCache[tokenAddress]]
               ELSE IF Hex(tokenAddress) = Hex(ZeroAddress)
               THEN [@ EXCEPT !.pc = "idle", !.result = NativeSymbol]
               ELSE [@ EXCEPT !.pc = "call"]]
    /\ UNCHANGED <<tokenCache, trackerVars, dispatchVars, countVars, callVars, lockVars, scanVars>>

\* symbol, err := helper.GetTokenSymbol(ctx, tokenAddress);
\* if err != nil { symbol = tokenAddress.Hex()[:8] }
\* (NewERC20Helper parses the constant ERC20ABI and does not fail)
TokenExternalCall(r) ==
    /\ resolvers[r].pc = "call"
    /\ \E callOk \in BOOLEAN :
          resolvers' = [resolvers EXCEPT ![r] =
              [@ EXCEPT !.pc = "store",
                        !.ok = callOk,
                        !.symbol = IF callOk THEN ContractSymbol(resolvers[r].token)
                                   ELSE HexPrefix(resolvers[r].token)]]
    /\ UNCHANGED <<tokenCache, trackerVars, dispatchVars, countVars, callVars, lockVars, scanVars>>

\* pc.tokenCache[tokenAddress] = symbol under Lock, and return symbol
TokenStore(r) ==
    /\ resolvers[r].pc = "store"
    /\ tokenCache' = MapPut(tokenCache, resolvers[r].token, resolvers[r].symbol)
    /\ resolvers' = [resolvers EXCEPT ![r] =
                        [@ EXCEPT !.pc = "idle", !.result = resolvers[r].symbol]]
    /\ UNCHANGED <<trackerVars, dispatchVars, countVars, callVars, lockVars, scanVars>>

\* ------------------------------------------------- transfers of a transaction

\* transferEventSignature
TransferEventSignature == "ddf252ad"

\* tx.To() == nil
NoTo == "nil"

\* types.Sender(types.NewEIP155Signer(pc.chainID), tx): the sender, or the
\* zero address and an error when the signature is not one the signer accepts
Sender(tx) ==
    IF tx.recoverable
    THEN [addr |-> tx.sender, err |-> FALSE]
    ELSE [addr |-> ZeroAddress, err |-> TRUE]

\* toAddr := ""; if tx.To() != nil { toAddr = tx.To().Hex() }
RecipientString(tx) ==
    IF tx.to = NoTo THEN EmptyString ELSE Hex(tx.to)

\* tx.Hash().Hex()
HashHex(h) ==
    <<"0x", h>>

\* a mutation of IsTransferLog: the signature of the event is not looked at
IsTransferLogAnySignature(log) ==
    Len(log.topics) >= 3

\* len(log.Topics) >= 3 && log.Topics[0] == transferEventSignature
IsTransferLog(log) ==
    /\ Len(log.topics) >= 3
    /\ log.topics[1] = TransferEventSignature

\* common.HexToAddress(log.Topics[i].Hex())
TopicAddress(topic) ==
    HexToAddress(Hex(topic))

isAddressInvolved(tx, receipt, address) ==
    \/ ~Sender(tx).err /\ Sender(tx).addr = address
    \/ tx.to # NoTo /\ tx.to = address
    \/ \E i \in 1..Len(receipt.logs) :
          /\ IsTransferLog(receipt.logs[i])
          /\ \/ TopicAddress(receipt.logs[i].topics[2]) = address
             \/ TopicAddress(receipt.logs[i].topics[3]) = address

\* a mutation of NativeTransfer: LogIndex is left at the zero value of its type
NativeTransferNoIndex(tx) ==
    [txHash       |-> HashHex(tx.hash),
     from         |-> Hex(Sender(tx).addr),
     to           |-> RecipientString(tx),
     value        |-> tx.value,
     tokenSymbol  |-> NativeSymbol,
     tokenAddress |-> Hex(ZeroAddress),
     logIndex     |-> 0]

\* the native transfer of extractAllTransfers (tx.Value() > 0)
NativeTransfer(tx) ==
    [txHash       |-> HashHex(tx.hash),
     from         |-> Hex(Sender(tx).addr),
     to           |-> RecipientString(tx),
     value        |-> tx.value,
     tokenSymbol  |-> NativeSymbol,
     tokenAddress |-> Hex(ZeroAddress),
     logIndex     |-> -1]

\* the loop of extractAllTransfers over receipt.Logs from position i (counted
\* from 1; LogIndex is the Go index i - 1), resolving symbols against cache
RECURSIVE TokenTransfers(_, _, _, _, _)
TokenTransfers(tx, logs, i, cache, callOk) ==
    IF i > Len(logs)
    THEN [transfers |-> << >>, cache |-> cache]
    ELSE IF IsTransferLog(logs[i])
    THEN LET r    == getTokenSymbolResult(cache, logs[i].address, callOk[logs[i].address])
             rest == TokenTransfers(tx, logs, i + 1, r.cache, callOk)
             tr   == [txHash       |-> HashHex(tx.hash),
                      from         |-> Hex(TopicAddress(logs[i].topics[2])),
                      to           |-> Hex(TopicAddress(logs[i].topics[3])),
                      value        |-> logs[i].data,
                      tokenSymbol  |-> r.symbol,
                      tokenAddress |-> Hex(logs[i].address),
                      logIndex     |-> i - 1]
         IN  [transfers |-> <<tr>> \o rest.transfers, cache |-> rest.cache]
    ELSE TokenTransfers(tx, logs, i + 1, cache, callOk)

\* gives the transfers and the token cache after the symbol look-ups
extractAllTransfers(tx, receipt, cache, callOk) ==
    LET tok == TokenTransfers(tx, receipt.logs, 1, cache, callOk)
    IN  [transfers |-> (IF tx.value > 0 THEN <<NativeTransfer(tx)>> ELSE << >>)
                          \o tok.transfers,
         cache     |-> tok.cache]

createDomainTransaction(tx, receipt, cache, callOk) ==
    LET ex == extractAllTransfers(tx, receipt, cache, callOk)
    IN  [tx    |-> [hash        |-> HashHex(tx.hash),
                    from        |-> Hex(Sender(tx).addr),
                    to          |-> RecipientString(tx),
                    blockNumber |-> receipt.blockNumber,
                    transfers   |-> ex.transfers],
         cache |-> ex.cache]

\* a mutation of filterTransfersForAddress: every transfer is kept
filterTransfersKeepAll(transfers, address) ==
    transfers

filterTransfersForAddress(transfers, address) ==
    SelectSeq(transfers,
              LAMBDA tr : \/ HexToAddress(tr.from) = address
                          \/ HexToAddress(tr.to) = address)

\* the zero value of domain.Transaction, what a receive from a closed channel yields
ZeroTransaction ==
    [hash |-> EmptyString, from |-> EmptyString, to |-> EmptyString,
     blockNumber |-> 0, transfers |-> << >>]

\* ------------------------------------------------------------ listener tasks

\* the zero value of domain.WalletNotification
ZeroNotification ==
    [walletAddress |-> EmptyString, transaction |-> ZeroTransaction,
     transfers |-> << >>, subscribers |-> << >>]

\* context.WithCancel(context.Background()) and `go wt.startWalletListener`:
\* a fresh context and a listener goroutine about to call SubscribeToAddress
\*   lpc     where startWalletListener is   tx, notification   its locals
\*   spc     where the goroutine of SubscribeToAddress is
\*   txChan  the hand-off channel, closed once the goroutine has returned
\*   block   the transactions of the block being scanned that are still to do
\*   failed  the header subscription failed (at subscribing or later)
\*   err     the latest PublishNotification of the listener returned an error
NewTask(walletAddress) ==
    [addr         |-> walletAddress,
     cancelled    |-> FALSE,
     lpc          |-> "subscribe",
     tx           |-> ZeroTransaction,
     notification |-> ZeroNotification,
     spc          |-> "none",
     txChan       |-> << >>,
     closed       |-> FALSE,
     block        |-> << >>,
     blockNumber  |-> 0,
     failed       |-> FALSE,
     err          |-> FALSE]

\* cancel(): the context of task t is done from now on
Cancel(ts, t) ==
    [ts EXCEPT ![t].cancelled = TRUE]

Live(t) ==
    ~tasks[t].cancelled

TaskIds == 1..Len(tasks)

\* ------------------------------------------------------ WalletTracker ops

\* a mutation of AddWallet: a listener that has returned is started anew
AddWalletRestartExited(walletAddress, userID) ==
    /\ subscribers' = MapPut(subscribers, walletAddress,
                             Append(SubsOf(walletAddress), userID))
    /\ IF \/ walletAddress \notin DOMAIN listeners
          \/ tasks[listeners[walletAddress]].lpc = "exited"
       THEN /\ tasks' = Append(tasks, NewTask(walletAddress))
            /\ listeners' = MapPut(listeners, walletAddress, Len(tasks) + 1)
       ELSE UNCHANGED <<tasks, listeners>>

\* a mutation of AddWallet: spawns a listener on every call
AddWalletAlwaysSpawn(walletAddress, userID) ==
    /\ subscribers' = MapPut(subscribers, walletAddress,
                             Append(SubsOf(walletAddress), userID))
    /\ tasks' = Append(tasks, NewTask(walletAddress))
    /\ listeners' = MapPut(listeners, walletAddress, Len(tasks) + 1)

AddWallet(walletAddress, userID) ==
    /\ subscribers' = MapPut(subscribers, walletAddress,
                             Append(SubsOf(walletAddress), userID))
    /\ IF walletAddress \notin DOMAIN listeners
       THEN /\ tasks' = Append(tasks, NewTask(walletAddress))
            /\ listeners' = MapPut(listeners, walletAddress, Len(tasks) + 1)
       ELSE UNCHANGED <<tasks, listeners>>

\* a mutation of RemoveWallet: stops the listener without looking at the list
RemoveWalletAlwaysStop(walletAddress, userID) ==
    LET old  == SubsOf(walletAddress)
        subs == IF Occurs(old, userID)
                THEN MapPut(subscribers, walletAddress, RemoveFirst(old, userID))
                ELSE subscribers
    IN  IF walletAddress \in DOMAIN listeners
        THEN /\ tasks' = Cancel(tasks, listeners[walletAddress])
             /\ listeners' = MapDelete(listeners, walletAddress)
             /\ subscribers' = MapDelete(subs, walletAddress)
        ELSE /\ subscribers' = subs
             /\ UNCHANGED <<tasks, listeners>>

\* a mutation of RemoveWallet: forgets the listener but never cancels it
RemoveWalletNoCancel(walletAddress, userID) ==
    LET old  == SubsOf(walletAddress)
        subs == IF Occurs(old, userID)
                THEN MapPut(subscribers, walletAddress, RemoveFirst(old, userID))
                ELSE subscribers
        left == IF walletAddress \in DOMAIN subs THEN Len(subs[walletAddress]) ELSE 0
    IN  IF left = 0 /\ walletAddress \in DOMAIN listeners
        THEN /\ listeners' = MapDelete(listeners, walletAddress)
             /\ subscribers' = MapDelete(subs, walletAddress)
             /\ UNCHANGED tasks
        ELSE /\ subscribers' = subs
             /\ UNCHANGED <<tasks, listeners>>

\* a mutation of RemoveWallet: keeps the emptied subscriber entry
RemoveWalletKeepKey(walletAddress, userID) ==
    LET old  == SubsOf(walletAddress)
        subs == IF Occurs(old, userID)
                THEN MapPut(subscribers, walletAddress, RemoveFirst(old, userID))
                ELSE subscribers
        left == IF walletAddress \in DOMAIN subs THEN Len(subs[walletAddress]) ELSE 0
    IN  IF left = 0 /\ walletAddress \in DOMAIN listeners
        THEN /\ tasks' = Cancel(tasks, listeners[walletAddress])
             /\ subscribers' = subs
             /\ UNCHANGED listeners
        ELSE /\ subscribers' = subs
             /\ UNCHANGED <<tasks, listeners>>

RemoveWallet(walletAddress, userID) ==
    LET old  == SubsOf(walletAddress)
        subs == IF Occurs(old, userID)
                THEN MapPut(subscribers, walletAddress, RemoveFirst(old, userID))
                ELSE subscribers
        left == IF walletAddress \in DOMAIN subs THEN Len(subs[walletAddress]) ELSE 0
    IN  IF left = 0 /\ walletAddress \in DOMAIN listeners
        THEN /\ tasks' = Cancel(tasks, listeners[walletAddress])
             /\ listeners' = MapDelete(listeners, walletAddress)
             /\ subscribers' = MapDelete(subs, walletAddress)
        ELSE /\ subscribers' = subs
             /\ UNCHANGED <<tasks, listeners>>

stopAllListeners ==
    /\ tasks' = [t \in TaskIds |->
                    IF \E a \in DOMAIN listeners : listeners[a] = t
                    THEN [tasks[t] EXCEPT !.cancelled = TRUE]
                    ELSE tasks[t]]
    /\ listeners' = << >>
    /\ subscribers' = << >>

\* the model's caps on an AddWallet: list length and number of tasks
AddWithinBounds(walletAddress) ==
    /\ Len(SubsOf(walletAddress)) < MaxSubs
    /\ walletAddress \in DOMAIN listeners \/ Len(tasks) < MaxTasks

\* ------------------------------------------------------- command dispatch

Total(bag) ==
    LET RECURSIVE Sum(_)
        Sum(S) == IF S = {} THEN 0
                  ELSE LET c == CHOOSE x \in S : TRUE
                       IN  bag[c] + Sum(S \ {c})
    IN  Sum(DOMAIN bag)

\* a mutation of Consume: `handler(cmd)` without `go`, the loop waits for the
\* handler before it takes the next message
ConsumeAndWait(payload) ==
    /\ ~consumerDone
    /\ Total(inflight) = 0
    /\ LET decoded == Unmarshal(payload)
       IN  IF decoded.ok
           THEN /\ inflight' = [inflight EXCEPT ![decoded.cmd] = @ + 1]
                /\ IF consumed.recorded
                   THEN /\ Len(consumed.order) < MaxConsumed
                        /\ consumed' = [consumed EXCEPT !.order = Append(@, decoded.cmd)]
                   ELSE UNCHANGED consumed
                /\ UNCHANGED logged
           ELSE /\ logged' = logged \cup {UnmarshalFailed}
                /\ UNCHANGED <<inflight, consumed>>
    /\ UNCHANGED <<trackerVars, ctxDone, stopped, consumerDone, countVars, scanVars, tokenVars, callVars, lockVars>>

\* SubscribeCommands, case msg := <-ch: a payload that does not decode is
\* logged and the loop continues; one that decodes is handed to
\* `go handler(cmd)`
Consume(payload) ==
    /\ ~consumerDone
    /\ LET decoded == Unmarshal(payload)
       IN  IF decoded.ok
           THEN /\ Total(inflight) < MaxInflight
                /\ inflight' = [inflight EXCEPT ![decoded.cmd] = @ + 1]
                /\ IF consumed.recorded
                   THEN /\ Len(consumed.order) < MaxConsumed
                        /\ consumed' = [consumed EXCEPT !.order = Append(@, decoded.cmd)]
                   ELSE UNCHANGED consumed
                /\ UNCHANGED logged
           ELSE /\ logged' = logged \cup {UnmarshalFailed}
                /\ UNCHANGED <<inflight, consumed>>
    /\ UNCHANGED <<trackerVars, ctxDone, stopped, consumerDone, countVars, scanVars, tokenVars, callVars, lockVars>>

\* SubscribeCommands, case <-ctx.Done(): return ctx.Err()
ConsumerStop ==
    /\ ctxDone
    /\ ~consumerDone
    /\ consumerDone' = TRUE
    /\ UNCHANGED <<trackerVars, inflight, ctxDone, stopped, logged, consumed, countVars, scanVars, tokenVars, callVars, lockVars>>

\* a mutation of HandleCommand: a command of unknown type is handled as add_wallet
HandleCommandDefaultAdd(cmd) ==
    /\ inflight[cmd] > 0
    /\ inflight' = [inflight EXCEPT ![cmd] = @ - 1]
    /\ CASE cmd.type = RemoveWalletCommand ->
              RemoveWallet(cmd.walletAddress, cmd.userID)
         [] OTHER ->
              /\ AddWithinBounds(cmd.walletAddress)
              /\ AddWallet(cmd.walletAddress, cmd.userID)
    /\ logged' = IF cmd.type \in {AddWalletCommand, RemoveWalletCommand}
                 THEN logged ELSE logged \cup {UnknownCommandType}
    /\ UNCHANGED <<ctxDone, stopped, consumerDone, consumed, countVars, scanVars, tokenVars, callVars, lockVars>>

\* CommandHandler.HandleCommand run by a handler goroutine
HandleCommand(cmd) ==
    /\ inflight[cmd] > 0
    /\ inflight' = [inflight EXCEPT ![cmd] = @ - 1]
    /\ CASE cmd.type = AddWalletCommand ->
              /\ AddWithinBounds(cmd.walletAddress)
              /\ AddWallet(cmd.walletAddress, cmd.userID)
              /\ UNCHANGED logged
         [] cmd.type = RemoveWalletCommand ->
              /\ RemoveWallet(cmd.walletAddress, cmd.userID)
              /\ UNCHANGED logged
         [] OTHER ->
              /\ logged' = logged \cup {UnknownCommandType}
              /\ UNCHANGED trackerVars
    /\ UNCHANGED <<ctxDone, stopped, consumerDone, consumed, countVars, scanVars, tokenVars, callVars, lockVars>>

\* main: cancel() after the interrupt signal
CancelCtx ==
    /\ ~ctxDone
    /\ ctxDone' = TRUE
    /\ UNCHANGED <<trackerVars, inflight, stopped, consumerDone, logged, consumed, countVars, scanVars, tokenVars, callVars, lockVars>>

\* WalletTracker.Start: <-ctx.Done() and then stopAllListeners
Start ==
    /\ ctxDone
    /\ ~stopped
    /\ stopAllListeners
    /\ stopped' = TRUE
    /\ UNCHANGED <<inflight, ctxDone, consumerDone, logged, consumed, countVars, scanVars, tokenVars, callVars, lockVars>>

\* ------------------------------------------------ direct calls, counted

\* the history of calls for the tracked pair: k AddWallet and j RemoveWallet
\* calls since the maps were last empty by construction or by stopAllListeners
CountCall(isAdd, walletAddress, userID) ==
    IF counting /\ tracked = <<walletAddress, userID>>
    THEN IF kAdd + jRem < MaxCalls
         THEN /\ kAdd' = IF isAdd THEN kAdd + 1 ELSE kAdd
              /\ jRem' = IF isAdd THEN jRem ELSE jRem + 1
              /\ under' = (under \/ (~isAdd /\ ~Occurs(SubsOf(walletAddress), userID)))
              /\ UNCHANGED <<tracked, counting>>
         ELSE /\ counting' = FALSE
              /\ UNCHANGED <<tracked, kAdd, jRem, under>>
    ELSE UNCHANGED countVars

\* HandleCommand, case domain.AddWalletCommand
AddWalletCall(walletAddress, userID) ==
    /\ AddWithinBounds(walletAddress)
    /\ AddWallet(walletAddress, userID)
    /\ CountCall(TRUE, walletAddress, userID)
    /\ UNCHANGED <<dispatchVars, scanVars, tokenVars, callVars, lockVars>>

\* HandleCommand, case domain.RemoveWalletCommand
RemoveWalletCall(walletAddress, userID) ==
    /\ RemoveWallet(walletAddress, userID)
    /\ CountCall(FALSE, walletAddress, userID)
    /\ UNCHANGED <<dispatchVars, scanVars, tokenVars, callVars, lockVars>>

\* WalletTracker.Start, with the call history of the tracked pair starting anew
StartCounted ==
    /\ ctxDone
    /\ ~stopped
    /\ stopAllListeners
    /\ stopped' = TRUE
    /\ kAdd' = 0
    /\ jRem' = 0
    /\ under' = FALSE
    /\ UNCHANGED <<inflight, ctxDone, consumerDone, logged, consumed, tracked, counting, scanVars, tokenVars, callVars, lockVars>>

\* ------------------------------------------------------- blocks delivered

TokenContracts == {"c4"}

TransferLog(token, from, to, amount) ==
    [address |-> token, topics |-> <<TransferEventSignature, from, to>>, data |-> amount]

\* the transactions a block may hold, before their hash is known
TxShapes ==
    { [sender |-> "a1", recoverable |-> TRUE, to |-> "b3", value |-> 1, logs |-> << >>],
      [sender |-> "b3", recoverable |-> TRUE, to |-> "c4", value |-> 0,
       logs |-> <<TransferLog("c4", "b3", "a1", 5)>>],
      [sender |-> "a1", recoverable |-> TRUE, to |-> "c4", value |-> 0,
       logs |-> <<TransferLog("c4", "b3", "a2", 5)>>],
      [sender |-> "b3", recoverable |-> TRUE, to |-> "a2", value |-> 1, logs |-> << >>] }

BlockBodies ==
    UNION {[1..n -> TxShapes] : n \in 0..MaxBlockLen}

\* block.Transactions() of the block numbered number: each transaction with
\* its own hash
Transactions(number, body) ==
    [i \in 1..Len(body) |-> [hash |-> <<number, i>>] @@ body[i]]

\* ------------------------------------------ startWalletListener goroutine

SetTask(t, task) ==
    tasks' = [tasks EXCEPT ![t] = task]

\* txChan, err := wt.blockchainClient.SubscribeToAddress(ctx, walletAddress):
\* SubscribeNewHead either fails, and the listener returns, or succeeds, and
\* the scanning goroutine is started
ListenerSubscribe(t) ==
    /\ tasks[t].lpc = "subscribe"
    /\ \E ok \in BOOLEAN :
          SetTask(t, IF ok
                     THEN [tasks[t] EXCEPT !.lpc = "loop", !.spc = "select"]
                     ELSE [tasks[t] EXCEPT !.lpc = "exited", !.failed = TRUE])
    /\ UNCHANGED <<listeners, subscribers, dispatchVars, countVars, callVars, lockVars, scanVars, tokenVars>>

\* select, case <-ctx.Done(): return
ListenerCtxDone(t) ==
    /\ tasks[t].lpc = "loop"
    /\ tasks[t].cancelled
    /\ SetTask(t, [tasks[t] EXCEPT !.lpc = "exited"])
    /\ UNCHANGED <<listeners, subscribers, dispatchVars, countVars, callVars, lockVars, scanVars, tokenVars>>

\* a mutation of ListenerReceive: the newest transaction of the channel is taken
ListenerReceiveNewest(t) ==
    /\ tasks[t].lpc = "loop"
    /\ Len(tasks[t].txChan) > 0 \/ tasks[t].closed
    /\ SetTask(t, IF Len(tasks[t].txChan) > 0
                  THEN [tasks[t] EXCEPT !.lpc = "handle",
                                        !.tx = tasks[t].txChan[Len(tasks[t].txChan)],
                                        !.txChan = SubSeq(tasks[t].txChan, 1,
                                                          Len(tasks[t].txChan) - 1)]
                  ELSE [tasks[t] EXCEPT !.lpc = "handle", !.tx = ZeroTransaction])
    /\ UNCHANGED <<listeners, subscribers, dispatchVars, countVars, callVars, lockVars, scanVars, tokenVars>>

\* select, case tx := <-txChan: ready when the channel holds a transaction or
\* is closed; a closed and drained channel yields the zero Transaction
ListenerReceive(t) ==
    /\ tasks[t].lpc = "loop"
    /\ Len(tasks[t].txChan) > 0 \/ tasks[t].closed
    /\ SetTask(t, IF Len(tasks[t].txChan) > 0
                  THEN [tasks[t] EXCEPT !.lpc = "handle",
                                        !.tx = Head(tasks[t].txChan),
                                        !.txChan = Tail(tasks[t].txChan)]
                  ELSE [tasks[t] EXCEPT !.lpc = "handle", !.tx = ZeroTransaction])
    /\ UNCHANGED <<listeners, subscribers, dispatchVars, countVars, callVars, lockVars, scanVars, tokenVars>>

\* handleTransaction up to the notification literal: the subscriber snapshot
\* under RLock, the return when it is empty, the notification (its Transfers
\* field is not among the fields the literal sets)
handleTransaction(t) ==
    /\ tasks[t].lpc = "handle"
    /\ LET snapshot == SubsOf(tasks[t].addr)
       IN  SetTask(t, IF Len(snapshot) = 0
                      THEN [tasks[t] EXCEPT !.lpc = "loop", !.tx = ZeroTransaction]
                      ELSE [tasks[t] EXCEPT
                              !.lpc = "publish",
                              !.notification =
                                  [walletAddress |-> tasks[t].addr,
                                   transaction   |-> tasks[t].tx,
                                   transfers     |-> << >>,
                                   subscribers   |-> snapshot]])
    /\ UNCHANGED <<listeners, subscribers, dispatchVars, countVars, callVars, lockVars, scanVars, tokenVars>>

\* a mutation of PublishNotification: the listener returns when the publish fails
PublishNotificationOrStop(t) ==
    /\ tasks[t].lpc = "publish"
    /\ published' = published \cup {<<t, tasks[t].notification.transaction>>}
    /\ repeated' =
          IF <<t, tasks[t].notification.transaction>> \in published
          THEN repeated \cup {<<t, tasks[t].notification.transaction>>}
          ELSE repeated
    /\ \E err \in BOOLEAN :
          SetTask(t, [tasks[t] EXCEPT !.lpc = IF err THEN "exited" ELSE "loop",
                                      !.tx = ZeroTransaction,
                                      !.notification = ZeroNotification,
                                      !.err = err])
    /\ UNCHANGED <<listeners, subscribers, dispatchVars, countVars, callVars, lockVars, headers,
                   handedOff, tokenVars>>

\* wt.publisher.PublishNotification(ctx, notification) with the notification
\* of the task: json.Marshal and the Redis PUBLISH succeed, or one of them
\* fails and err is returned; either way handleTransaction logs and returns to
\* the select of the listener
PublishNotification(t) ==
    /\ tasks[t].lpc = "publish"
    /\ published' = published \cup {<<t, tasks[t].notification.transaction>>}
    /\ repeated' =
          IF <<t, tasks[t].notification.transaction>> \in published
          THEN repeated \cup {<<t, tasks[t].notification.transaction>>}
          ELSE repeated
    /\ \E err \in BOOLEAN :
          SetTask(t, [tasks[t] EXCEPT !.lpc = "loop",
                                      !.tx = ZeroTransaction,
                                      !.notification = ZeroNotification,
                                      !.err = err])
    /\ UNCHANGED <<listeners, subscribers, dispatchVars, countVars, callVars, lockVars, headers,
                   handedOff, tokenVars>>

\* ------------------------------------------- SubscribeToAddress goroutine

\* the deferred sub.Unsubscribe() and close(txChan)
ScanReturn(task) ==
    [task EXCEPT !.spc = "exited", !.closed = TRUE, !.block = << >>]

\* select, case <-ctx.Done(): return
ScanCtxDone(t) ==
    /\ tasks[t].spc = "select"
    /\ tasks[t].cancelled
    /\ SetTask(t, ScanReturn(tasks[t]))
    /\ UNCHANGED <<listeners, subscribers, dispatchVars, countVars, callVars, lockVars, scanVars, tokenVars>>

\* select, case err := <-sub.Err(): return
ScanSubscriptionError(t) ==
    /\ tasks[t].spc = "select"
    /\ SetTask(t, [ScanReturn(tasks[t]) EXCEPT !.failed = TRUE])
    /\ UNCHANGED <<listeners, subscribers, dispatchVars, countVars, callVars, lockVars, scanVars, tokenVars>>

\* select, case header := <-headers: processBlockForAddress up to its loop;
\* BlockByHash fails, and the header is given up, or yields the block. The
\* stream delivers at most limit headers, their blocks among bodies, and
\* BlockByHash has one of the outcomes in fetches
DeliverHeader(t, bodies, fetches, limit) ==
    /\ tasks[t].spc = "select"
    /\ headers < limit
    /\ headers' = headers + 1
    /\ \E body \in bodies, fetched \in fetches :
          SetTask(t, IF fetched /\ body # << >>
                     THEN [tasks[t] EXCEPT !.spc = "scan",
                                           !.blockNumber = headers + 1,
                                           !.block = Transactions(headers + 1, body)]
                     ELSE tasks[t])
    /\ UNCHANGED <<listeners, subscribers, dispatchVars, countVars, callVars, lockVars, handedOff,
                   published, repeated, tokenVars>>

ScanHeader(t) ==
    DeliverHeader(t, BlockBodies, BOOLEAN, MaxHeaders)

\* a mutation of ScanContinue: the rest of the block is given up
ScanGiveUpBlock(task) ==
    [task EXCEPT !.spc = "select", !.block = << >>]

\* the loop of processBlockForAddress moves on to the next transaction, or
\* returns to the select of the goroutine after the last one
ScanContinue(task) ==
    IF Len(task.block) <= 1
    THEN [task EXCEPT !.spc = "select", !.block = << >>]
    ELSE [task EXCEPT !.block = Tail(task.block)]

\* a mutation of SelectReady: the send never finds the channel full
SelectReadyUnbounded(task) ==
    {"send"} \cup (IF task.cancelled THEN {"done"} ELSE {})

\* the cases of `select { case txChan <- domainTx: case <-ctx.Done(): default: }`
\* that can proceed; the default case runs when there is none
SelectReady(task) ==
    (IF Len(task.txChan) < TxChanCapacity THEN {"send"} ELSE {})
        \cup (IF task.cancelled THEN {"done"} ELSE {})

\* one iteration of the loop of processBlockForAddress, the receipt fetch
\* having one of the outcomes in receipts
ScanTransaction(t, receipts) ==
    /\ tasks[t].spc = "scan"
    /\ \E receiptOk \in receipts, callOk \in [TokenContracts -> BOOLEAN],
          choice \in {"send", "done"} :
          LET task     == tasks[t]
              tx       == Head(task.block)
              address  == HexToAddress(task.addr)
              receipt  == [logs |-> tx.logs, blockNumber |-> task.blockNumber]
              created  == createDomainTransaction(tx, receipt, tokenCache, callOk)
              relevant == filterTransfersForAddress(created.tx.transfers, address)
              domainTx == [created.tx EXCEPT !.transfers = relevant]
              ready    == SelectReady(task)
          IN  IF ~receiptOk \/ ~isAddressInvolved(tx, receipt, address)
              THEN /\ SetTask(t, ScanContinue(task))
                   /\ UNCHANGED <<tokenCache, handedOff>>
              ELSE /\ tokenCache' = created.cache
                   /\ IF Len(relevant) = 0 \/ ready = {}
                      THEN /\ SetTask(t, ScanContinue(task))
                           /\ UNCHANGED handedOff
                      ELSE /\ choice \in ready
                           /\ IF choice = "send"
                              THEN /\ SetTask(t, [ScanContinue(task) EXCEPT
                                                    !.txChan = Append(task.txChan, domainTx)])
                                   /\ handedOff' = handedOff \cup {<<t, domainTx>>}
                              ELSE /\ SetTask(t, [task EXCEPT !.spc = "select",
                                                              !.block = << >>])
                                   /\ UNCHANGED handedOff
    /\ UNCHANGED <<listeners, subscribers, dispatchVars, countVars, callVars, lockVars, headers,
                   published, repeated, resolvers>>

processBlockForAddress(t) ==
    ScanTransaction(t, BOOLEAN)

\* ------------------------------------------------------ the manager lock

\* the goroutines that use wt.mu: the handlers of commands, the listener
\* tasks (in handleTransaction) and the goroutine of Start
Handlers == {"handler"} \X (1..MaxInflight)

ListenerGoroutines == {"listener"} \X (1..MaxTasks)

StartGoroutine == <<"start", 1>>

Goroutines == Handlers \cup ListenerGoroutines \cup {StartGoroutine}

NoGoroutine == <<"none", 0>>

\* a goroutine outside every function that uses the lock
\*   pc        where it is      call, walletAddress, userID   the function and its arguments
\*   snapshot  the local `subscribers` of handleTransaction
\*   shared    that slice has the backing array of wt.subscribers[walletAddress]
IdleGoroutine ==
    [pc |-> "idle", call |-> "none", walletAddress |-> EmptyString, userID |-> 0,
     snapshot |-> << >>, shared |-> FALSE]

InitLock ==
    /\ mu = [writer |-> NoGoroutine, readers |-> {}]
    /\ goroutines = [g \in Goroutines |-> IdleGoroutine]

SetGoroutine(g, goroutine) ==
    goroutines' = [goroutines EXCEPT ![g] = goroutine]

\* a handler enters AddWallet or RemoveWallet and is at wt.mu.Lock()
LockCall(g, call, walletAddress, userID) ==
    /\ g \in Handlers
    /\ goroutines[g].pc = "idle"
    /\ SetGoroutine(g, [goroutines[g] EXCEPT !.pc = "lock", !.call = call,
                                             !.walletAddress = walletAddress,
                                             !.userID = userID])
    /\ UNCHANGED <<mu, trackerVars, dispatchVars, countVars, scanVars, tokenVars, callVars>>

\* Start: <-ctx.Done() has returned, stopAllListeners is at wt.mu.Lock()
LockStart ==
    /\ ctxDone
    /\ goroutines[StartGoroutine].pc = "idle"
    /\ SetGoroutine(StartGoroutine, [goroutines[StartGoroutine] EXCEPT
                                        !.pc = "lock", !.call = "stopAllListeners"])
    /\ UNCHANGED <<mu, trackerVars, dispatchVars, countVars, scanVars, tokenVars, callVars>>

\* sync.RWMutex.Lock: granted when nobody holds the lock
MuLock(g) ==
    /\ goroutines[g].pc = "lock"
    /\ mu.writer = NoGoroutine
    /\ mu.readers = {}
    /\ mu' = [mu EXCEPT !.writer = g]
    /\ SetGoroutine(g, [goroutines[g] EXCEPT !.pc = "locked"])
    /\ UNCHANGED <<trackerVars, dispatchVars, countVars, scanVars, tokenVars, callVars>>

\* what a slice of length Len(view) over the backing array of list shows
\* after `append(list[:i], list[i+1:]...)` for the first i with list[i] = userID:
\* the elements behind i have moved one place down, the last place keeps its value
ShiftedView(view, list, userID) ==
    IF ~Occurs(list, userID)
    THEN view
    ELSE LET i == FirstIndex(list, userID)
         IN  [k \in 1..Len(view) |->
                 IF k >= i /\ k < Len(list) THEN list[k + 1] ELSE view[k]]

\* the goroutines after the body run by g: a RemoveWallet writes through to
\* every slice that shares the backing array of the list it removes from
AfterLocked(g) ==
    [x \in Goroutines |->
        IF x = g
        THEN [goroutines[g] EXCEPT !.pc = "unlock"]
        ELSE IF /\ goroutines[x].shared
                /\ goroutines[g].call = RemoveWalletCommand
                /\ goroutines[x].walletAddress = goroutines[g].walletAddress
        THEN [goroutines[x] EXCEPT !.snapshot =
                 ShiftedView(@, SubsOf(goroutines[g].walletAddress), goroutines[g].userID)]
        ELSE goroutines[x]]

\* the body of AddWallet, RemoveWallet or stopAllListeners, between Lock and
\* the deferred Unlock
Locked(g) ==
    /\ goroutines[g].pc = "locked"
    /\ CASE goroutines[g].call = AddWalletCommand ->
              /\ AddWithinBounds(goroutines[g].walletAddress)
              /\ AddWallet(goroutines[g].walletAddress, goroutines[g].userID)
         [] goroutines[g].call = RemoveWalletCommand ->
              RemoveWallet(goroutines[g].walletAddress, goroutines[g].userID)
         [] OTHER ->
              stopAllListeners
    /\ goroutines' = AfterLocked(g)
    /\ UNCHANGED <<mu, dispatchVars, countVars, scanVars, tokenVars, callVars>>

\* the deferred wt.mu.Unlock() and the return
MuUnlock(g) ==
    /\ goroutines[g].pc = "unlock"
    /\ mu' = [mu EXCEPT !.writer = NoGoroutine]
    /\ SetGoroutine(g, IF g = StartGoroutine
                       THEN [IdleGoroutine EXCEPT !.pc = "returned"]
                       ELSE IdleGoroutine)
    /\ stopped' = (stopped \/ g = StartGoroutine)
    /\ UNCHANGED <<trackerVars, inflight, ctxDone, consumerDone, logged, consumed,
                   countVars, scanVars, tokenVars, callVars>>

\* the listener of task t has received a transaction: handleTransaction is at
\* wt.mu.RLock()
LockHandle(g) ==
    /\ g \in ListenerGoroutines
    /\ g[2] \in TaskIds
    /\ tasks[g[2]].lpc = "loop"
    /\ goroutines[g].pc = "idle"
    /\ SetGoroutine(g, [goroutines[g] EXCEPT !.pc = "rlock", !.call = "handleTransaction",
                                             !.walletAddress = tasks[g[2]].addr])
    /\ UNCHANGED <<mu, trackerVars, dispatchVars, countVars, scanVars, tokenVars, callVars>>

\* sync.RWMutex.RLock: granted when nobody holds the write lock
MuRLock(g) ==
    /\ goroutines[g].pc = "rlock"
    /\ mu.writer = NoGoroutine
    /\ mu' = [mu EXCEPT !.readers = @ \cup {g}]
    /\ SetGoroutine(g, [goroutines[g] EXCEPT !.pc = "rlocked"])
    /\ UNCHANGED <<trackerVars, dispatchVars, countVars, scanVars, tokenVars, callVars>>

\* a mutation of CopySubscribers: `subscribers := wt.subscribers[walletAddress]`,
\* the slice of the map without a copy
ShareSubscribers(g) ==
    /\ goroutines[g].pc = "rlocked"
    /\ SetGoroutine(g, [goroutines[g] EXCEPT !.pc = "runlock",
                                             !.snapshot = SubsOf(goroutines[g].walletAddress),
                                             !.shared = TRUE])
    /\ UNCHANGED <<mu, trackerVars, dispatchVars, countVars, scanVars, tokenVars, callVars>>

\* subscribers := make(...); copy(subscribers, wt.subscribers[walletAddress]):
\* a slice with a backing array of its own
CopySubscribers(g) ==
    /\ goroutines[g].pc = "rlocked"
    /\ SetGoroutine(g, [goroutines[g] EXCEPT !.pc = "runlock",
                                             !.snapshot = SubsOf(goroutines[g].walletAddress),
                                             !.shared = FALSE])
    /\ UNCHANGED <<mu, trackerVars, dispatchVars, countVars, scanVars, tokenVars, callVars>>

\* where handleTransaction goes after the snapshot: it returns when the
\* snapshot is empty and calls the publisher otherwise
AfterSnapshot(goroutine) ==
    IF Len(goroutine.snapshot) = 0
    THEN IdleGoroutine
    ELSE [goroutine EXCEPT !.pc = "publish"]

\* a mutation of MuRUnlock: the read lock is released by a deferred call, when
\* handleTransaction returns
MuRUnlockDeferred(g) ==
    /\ goroutines[g].pc = "runlock"
    /\ mu' = IF Len(goroutines[g].snapshot) = 0
             THEN [mu EXCEPT !.readers = @ \ {g}]
             ELSE mu
    /\ SetGoroutine(g, AfterSnapshot(goroutines[g]))
    /\ UNCHANGED <<trackerVars, dispatchVars, countVars, scanVars, tokenVars, callVars>>

\* wt.mu.RUnlock(), then `if len(subscribers) == 0 { return }`
MuRUnlock(g) ==
    /\ goroutines[g].pc = "runlock"
    /\ mu' = [mu EXCEPT !.readers = @ \ {g}]
    /\ SetGoroutine(g, AfterSnapshot(goroutines[g]))
    /\ UNCHANGED <<trackerVars, dispatchVars, countVars, scanVars, tokenVars, callVars>>

\* wt.publisher.PublishNotification(ctx, notification) and the return of
\* handleTransaction
LockPublish(g) ==
    /\ goroutines[g].pc = "publish"
    /\ mu' = [mu EXCEPT !.readers = @ \ {g}]
    /\ SetGoroutine(g, IdleGoroutine)
    /\ UNCHANGED <<trackerVars, dispatchVars, countVars, scanVars, tokenVars, callVars>>

\* ---------------------------------------------------------- specification

NoCommands == [c \in Commands |-> 0]

InitTracker ==
    /\ listeners = << >>
    /\ subscribers = << >>
    /\ tasks = << >>

InitDispatch ==
    /\ inflight = NoCommands
    /\ ctxDone = FALSE
    /\ stopped = FALSE
    /\ consumerDone = FALSE
    /\ logged = {}
    /\ consumed = [recorded |-> FALSE, order |-> << >>]

InitCount ==
    /\ tracked \in Addrs \X Users
    /\ kAdd = 0
    /\ jRem = 0
    /\ under = FALSE
    /\ counting = TRUE

InitScan ==
    /\ headers = 0
    /\ handedOff = {}
    /\ published = {}
    /\ repeated = {}

InitToken ==
    /\ tokenCache = << >>
    /\ resolvers = [r \in ResolverIds |-> IdleResolver]

\* no transfer function has been called on its own
NoCall == "none"

\* what the calls have returned: each field is empty until its call has
\* returned, and then holds the one value returned
NoReturn ==
    [involved |-> << >>, extracted |-> << >>, filtered |-> << >>]

InitCall ==
    /\ args = NoCall
    /\ ret = NoReturn

NotCounting ==
    /\ tracked = <<Hex("a1"), 1>>
    /\ kAdd = 0
    /\ jRem = 0
    /\ under = FALSE
    /\ counting = FALSE

Init ==
    /\ InitTracker
    /\ InitDispatch
    /\ InitCount
    /\ InitScan
    /\ InitToken
    /\ InitCall
    /\ InitLock

\* the manager under every interleaving of its calls
Next ==
    \/ \E a \in Addrs, u \in Users : AddWalletCall(a, u)
    \/ \E a \in Addrs, u \in Users : RemoveWalletCall(a, u)
    \/ CancelCtx
    \/ StartCounted

Spec == Init /\ [][Next]_vars

\* the manager driven by the command consumer and its handler goroutines
DispatchInit ==
    /\ InitTracker
    /\ InitDispatch
    /\ NotCounting
    /\ InitScan
    /\ InitToken
    /\ InitCall
    /\ InitLock

DispatchNext ==
    \/ \E payload \in Payloads : Consume(payload)
    \/ \E cmd \in Commands : HandleCommand(cmd)
    \/ ConsumerStop
    \/ CancelCtx
    \/ Start

DispatchSpec == DispatchInit /\ [][DispatchNext]_vars

\* the add_wallet and remove_wallet commands of the users for one address,
\* consumed in any order and handled by concurrent handlers, with the order
\* of consumption recorded
RaceCommands ==
    [type : {AddWalletCommand, RemoveWalletCommand}, walletAddress : {Hex("a1")},
     userID : Users]

RaceInit ==
    /\ InitTracker
    /\ inflight = NoCommands
    /\ ctxDone = FALSE
    /\ stopped = FALSE
    /\ consumerDone = FALSE
    /\ logged = {}
    /\ consumed = [recorded |-> TRUE, order |-> << >>]
    /\ NotCounting
    /\ InitScan
    /\ InitToken
    /\ InitCall
    /\ InitLock

RaceNext ==
    \/ \E cmd \in RaceCommands : Consume(Marshal(cmd))
    \/ \E cmd \in RaceCommands : HandleCommand(cmd)

RaceSpec == RaceInit /\ [][RaceNext]_vars

\* one watched address and one user, with the listener tasks of the address
\* and their block scans
ListenerAddrs == {Hex("a1")}

ListenerUsers == {1}

ListenerInit ==
    /\ InitTracker
    /\ InitDispatch
    /\ NotCounting
    /\ InitScan
    /\ InitToken
    /\ InitCall
    /\ InitLock

ListenerNext ==
    \/ \E a \in ListenerAddrs, u \in ListenerUsers : AddWalletCall(a, u)
    \/ \E a \in ListenerAddrs, u \in ListenerUsers : RemoveWalletCall(a, u)
    \/ \E t \in TaskIds : ListenerSubscribe(t)
    \/ \E t \in TaskIds : ListenerCtxDone(t)
    \/ \E t \in TaskIds : ListenerReceive(t)
    \/ \E t \in TaskIds : handleTransaction(t)
    \/ \E t \in TaskIds : PublishNotification(t)
    \/ \E t \in TaskIds : ScanCtxDone(t)
    \/ \E t \in TaskIds : ScanSubscriptionError(t)
    \/ \E t \in TaskIds : ScanHeader(t)
    \/ \E t \in TaskIds : processBlockForAddress(t)

ListenerSpec == ListenerInit /\ [][ListenerNext]_vars

\* the goroutines that use the manager lock, each step of theirs on its own:
\* the handlers calling AddWallet and RemoveWallet for one address, the
\* listener tasks subscribing and handling transactions, and Start
LockNext ==
    \/ \E g \in Handlers, call \in {AddWalletCommand, RemoveWalletCommand},
          a \in ListenerAddrs, u \in ListenerUsers : LockCall(g, call, a, u)
    \/ CancelCtx
    \/ LockStart
    \/ \E g \in Goroutines : MuLock(g)
    \/ \E g \in Goroutines : Locked(g)
    \/ \E g \in Goroutines : MuUnlock(g)
    \/ \E t \in TaskIds : ListenerSubscribe(t)
    \/ \E g \in Goroutines : LockHandle(g)
    \/ \E g \in Goroutines : MuRLock(g)
    \/ \E g \in Goroutines : CopySubscribers(g)
    \/ \E g \in Goroutines : MuRUnlock(g)
    \/ \E g \in Goroutines : LockPublish(g)

LockSpec == ListenerInit /\ [][LockNext]_vars

\* the token symbol cache under concurrent getTokenSymbol calls
TokenNext ==
    \/ \E r \in ResolverIds, tokenAddress \in TokenInputs : TokenCall(r, tokenAddress)
    \/ \E r \in ResolverIds : TokenLookup(r)
    \/ \E r \in ResolverIds : TokenExternalCall(r)
    \/ \E r \in ResolverIds : TokenStore(r)

TokenSpec == ListenerInit /\ [][TokenNext]_vars

\* the listener tasks under fair scheduling of their goroutines: a goroutine
\* that can take a step eventually takes one
ListenerStep(t) ==
    /\ t \in TaskIds
    /\ \/ ListenerSubscribe(t)
       \/ ListenerCtxDone(t)
       \/ ListenerReceive(t)
       \/ handleTransaction(t)
       \/ PublishNotification(t)

ScanStep(t) ==
    /\ t \in TaskIds
    /\ \/ ScanCtxDone(t)
       \/ processBlockForAddress(t)

FairListenerSpec ==
    /\ ListenerInit
    /\ [][ListenerNext]_vars
    /\ \A t \in 1..MaxTasks :
          /\ WF_vars(ListenerStep(t))
          /\ WF_vars(ScanStep(t))
          /\ SF_vars(t \in TaskIds /\ ListenerCtxDone(t))
          /\ SF_vars(t \in TaskIds /\ ScanCtxDone(t))

\* a listener whose consumer lags behind a burst of blocks: the address is
\* watched by one user, its header subscription is established, every block
\* holds two payments made by the address, every fetch succeeds and the
\* context of the listener is not cancelled
BurstBody ==
    LET payment == [sender |-> "a1", recoverable |-> TRUE, to |-> "b3", value |-> 1,
                    logs |-> << >>]
    IN  <<payment, payment>>

\* the state after AddWallet(0xa1, 1) and a successful SubscribeToAddress
HandOffInit ==
    /\ listeners = MapPut(<< >>, Hex("a1"), 1)
    /\ subscribers = MapPut(<< >>, Hex("a1"), <<1>>)
    /\ tasks = <<[NewTask(Hex("a1")) EXCEPT !.lpc = "loop", !.spc = "select"]>>
    /\ InitDispatch
    /\ NotCounting
    /\ InitScan
    /\ InitToken
    /\ InitCall
    /\ InitLock

BurstHeader(t) ==
    DeliverHeader(t, {BurstBody}, {TRUE}, MaxBurstHeaders)

BurstScan(t) ==
    ScanTransaction(t, {TRUE})

HandOffNext ==
    \/ \E t \in TaskIds : BurstHeader(t)
    \/ \E t \in TaskIds : BurstScan(t)
    \/ \E t \in TaskIds : ListenerReceive(t)
    \/ \E t \in TaskIds : handleTransaction(t)
    \/ \E t \in TaskIds : PublishNotification(t)

HandOffSpec == HandOffInit /\ [][HandOffNext]_vars

\* the subscriber snapshot of handleTransaction against AddWallet and
\* RemoveWallet calls of two users: the address is watched by user 1 and its
\* listener is in its loop
SnapshotNext ==
    \/ \E g \in Handlers, call \in {AddWalletCommand, RemoveWalletCommand},
          a \in ListenerAddrs, u \in Users : LockCall(g, call, a, u)
    \/ \E g \in Goroutines : MuLock(g)
    \/ \E g \in Goroutines : Locked(g)
    \/ \E g \in Goroutines : MuUnlock(g)
    \/ \E g \in Goroutines : LockHandle(g)
    \/ \E g \in Goroutines : MuRLock(g)
    \/ \E g \in Goroutines : CopySubscribers(g)
    \/ \E g \in Goroutines : MuRUnlock(g)
    \/ \E g \in Goroutines : LockPublish(g)

SnapshotSpec == HandOffInit /\ [][SnapshotNext]_vars

\* the block scan of one watched address on its own: the address is watched
\* by one user, its header subscription is established, and every block holds
\* one transaction, which the address sent or not, with or without native
\* value, whose receipt has Transfer events that name the address or not
NarrowLogLists ==
    LET incoming == TransferLog("c4", "b3", "a1", 5)
        outgoing == TransferLog("c4", "a1", "a2", 7)
        foreign  == TransferLog("c4", "b3", "a2", 5)
    IN  { << >>, <<incoming>>, <<foreign>>, <<foreign, incoming>>, <<incoming, foreign>>,
          <<outgoing, incoming>>, <<foreign, foreign>> }

NarrowTxShapes ==
    [sender : {"a1", "b3"}, recoverable : BOOLEAN, to : {"a1", "c4", NoTo},
     value : {0, 2}, logs : NarrowLogLists]

NarrowBodies ==
    {<<shape>> : shape \in NarrowTxShapes}

NarrowHeader(t) ==
    DeliverHeader(t, NarrowBodies, BOOLEAN, MaxHeaders)

NarrowNext ==
    \/ \E t \in TaskIds : NarrowHeader(t)
    \/ \E t \in TaskIds : processBlockForAddress(t)
    \/ \E a \in ListenerAddrs, u \in ListenerUsers : RemoveWalletCall(a, u)
    \/ \E t \in TaskIds : ScanCtxDone(t)

NarrowSpec == HandOffInit /\ [][NarrowNext]_vars

\* the block scan where fetches fail: the address is watched by one user,
\* its header subscription is established, every block holds two
\* transactions, each a payment made by the address or a token transfer to
\* it, and BlockByHash and TransactionReceipt fail or succeed
FetchBodies ==
    LET payment  == BurstBody[1]
        incoming == [sender |-> "b3", recoverable |-> TRUE, to |-> "c4", value |-> 0,
                     logs |-> <<TransferLog("c4", "b3", "a1", 5)>>]
    IN  [1..Len(BurstBody) -> {payment, incoming}]

FetchHeader(t) ==
    DeliverHeader(t, FetchBodies, BOOLEAN, MaxFetchHeaders)

FetchNext ==
    \/ \E t \in TaskIds : FetchHeader(t)
    \/ \E t \in TaskIds : processBlockForAddress(t)

FetchSpec == HandOffInit /\ [][FetchNext]_vars

\* ------------------------------------- the transfer functions on their own

\* the topic-0 of an ERC-20 Approval event, a signature that is not Transfer's
ApprovalEventSignature == "8c5be1e5"

\* receipt logs: Transfer events of token c4, an Approval event with three
\* topics, a log with the Transfer signature and two topics, a log without topics
LogShapes ==
    { TransferLog("c4", "b3", "a1", 5),
      TransferLog("c4", "a1", "a2", 7),
      [address |-> "c4", topics |-> <<ApprovalEventSignature, "a1", "b3">>, data |-> 9],
      [address |-> "c4", topics |-> <<TransferEventSignature, "a1">>, data |-> 3],
      [address |-> "c4", topics |-> << >>, data |-> 1] }

LogLists ==
    UNION {[1..n -> LogShapes] : n \in 0..MaxLogs}

\* transactions: sent by a1 or b3, with a signature the EIP-155 signer
\* recovers the sender from or not, to a1, to b3 or creating a contract, with
\* or without native value
CallTxs ==
    [hash : {<<1, 1>>}, sender : {"a1", "b3"}, recoverable : BOOLEAN,
     to : {"a1", "b3", NoTo}, value : {0, 2}, logs : LogLists]

CallAddresses == {"a1", "a2", "b3", ZeroAddress}

CallArgs ==
    [tx : CallTxs, address : CallAddresses, callOk : [TokenContracts -> BOOLEAN]]

\* the receipt of the transaction of the call
CallReceipt ==
    [logs |-> args.tx.logs, blockNumber |-> 1]

CallInit ==
    /\ InitTracker
    /\ InitDispatch
    /\ NotCounting
    /\ InitScan
    /\ InitToken
    /\ args \in CallArgs
    /\ ret = NoReturn
    /\ InitLock

CallIsAddressInvolved ==
    /\ ret.involved = << >>
    /\ ret' = [ret EXCEPT !.involved =
                  <<isAddressInvolved(args.tx, CallReceipt, args.address)>>]
    /\ UNCHANGED <<trackerVars, dispatchVars, countVars, scanVars, tokenVars, args, lockVars>>

\* extractAllTransfers against an empty token cache
CallExtractAllTransfers ==
    /\ ret.extracted = << >>
    /\ ret' = [ret EXCEPT !.extracted =
                  <<extractAllTransfers(args.tx, CallReceipt, << >>, args.callOk).transfers>>]
    /\ UNCHANGED <<trackerVars, dispatchVars, countVars, scanVars, tokenVars, args, lockVars>>

\* filterTransfersForAddress on the transfers extracted
CallFilterTransfersForAddress ==
    /\ ret.extracted # << >>
    /\ ret.filtered = << >>
    /\ ret' = [ret EXCEPT !.filtered =
                  <<filterTransfersForAddress(ret.extracted[1], args.address)>>]
    /\ UNCHANGED <<trackerVars, dispatchVars, countVars, scanVars, tokenVars, args, lockVars>>

CallNext ==
    \/ CallIsAddressInvolved
    \/ CallExtractAllTransfers
    \/ CallFilterTransfersForAddress

CallSpec == CallInit /\ [][CallNext]_vars

\* ------------------------------------------------------------------ claims

UncancelledTasks(a) ==
    {t \in TaskIds : tasks[t].addr = a /\ ~tasks[t].cancelled}

\* C1: in every reachable state an address has an entry in the listeners map
\* exactly when its subscriber list is non-empty: never a cancel handle with
\* an empty list, never subscribers without a cancel handle.
C1_ListenerIffSubscribers ==
    \A a \in Addrs : (a \in DOMAIN listeners) <=> (Len(SubsOf(a)) > 0)

\* one address is watched by two subscribers after another listener has been
\* stopped and forgotten
C1_Witness ==
    \E a \in Addrs, t \in TaskIds :
        /\ a \in DOMAIN listeners
        /\ Len(SubsOf(a)) = 2
        /\ tasks[t].cancelled
        /\ \A b \in DOMAIN listeners : listeners[b] # t

\* C2: an AddWallet(addr, u) for an address without subscribers spawns exactly
\* one listener task for addr and records its cancel handle; an AddWallet for
\* an address that has a subscriber spawns nothing; and at any time at most
\* one task of an address has a context that is not cancelled.
C2_SpawnOnlyOnFirstSubscriber ==
    /\ [](\A a \in Addrs : Cardinality(UncancelledTasks(a)) <= 1)
    /\ [][\A a \in Addrs, u \in Users :
            AddWalletCall(a, u) =>
                IF Len(SubsOf(a)) = 0
                THEN /\ Len(tasks') = Len(tasks) + 1
                     /\ \A t \in TaskIds : tasks'[t] = tasks[t]
                     /\ tasks'[Len(tasks')].addr = a
                     /\ ~tasks'[Len(tasks')].cancelled
                     /\ a \in DOMAIN listeners'
                     /\ listeners'[a] = Len(tasks')
                ELSE /\ tasks' = tasks
                     /\ listeners' = listeners]_vars

\* an address was watched, stopped and is watched again by two subscribers:
\* its first task is cancelled, its second one is the only live one
C2_Witness ==
    \E a \in Addrs, t1, t2 \in TaskIds :
        /\ t1 # t2
        /\ tasks[t1].addr = a /\ tasks[t1].cancelled
        /\ tasks[t2].addr = a /\ ~tasks[t2].cancelled
        /\ a \in DOMAIN listeners /\ listeners[a] = t2
        /\ Len(SubsOf(a)) = 2

\* C3: a RemoveWallet(addr, u) that removes the last subscriber entry of addr
\* cancels the listener task of addr and deletes addr from the listeners map
\* and from the subscribers map in the same step; a RemoveWallet that leaves
\* an entry cancels nothing and keeps the handle.
C3_LastRemoveStopsListener ==
    [][\A a \in Addrs, u \in Users :
        RemoveWalletCall(a, u) =>
            /\ SubsOf(a) = <<u>> =>
                  /\ a \in DOMAIN listeners
                  /\ tasks'[listeners[a]].cancelled
                  /\ a \notin DOMAIN listeners'
                  /\ a \notin DOMAIN subscribers'
            /\ (Len(SubsOf(a)) > 0 /\ SubsOf(a) # <<u>>) =>
                  /\ tasks' = tasks
                  /\ listeners' = listeners
                  /\ a \in DOMAIN listeners
                  /\ a \in DOMAIN subscribers']_vars

\* before any shutdown, a listener has been cancelled and its address is in
\* neither map, while the other address is still watched
C3_Witness ==
    /\ ~ctxDone
    /\ \E t \in TaskIds :
          /\ tasks[t].cancelled
          /\ tasks[t].addr \notin DOMAIN listeners
          /\ tasks[t].addr \notin DOMAIN subscribers
    /\ \E a \in DOMAIN listeners : ~tasks[listeners[a]].cancelled

TrackedAddr == tracked[1]

TrackedUser == tracked[2]

C5_RemoveOfAbsentIsNoOp ==
    [][\A a \in Addrs, u \in Users :
        (RemoveWalletCall(a, u) /\ ~Occurs(SubsOf(a), u)) =>
            /\ listeners' = listeners
            /\ subscribers' = subscribers
            /\ DOMAIN subscribers' = DOMAIN subscribers
            /\ tasks' = tasks]_vars

\* a RemoveWallet was made for a user who never subscribed to an address that
\* another user watches, and the listener of the address is still running
C5_Witness ==
    /\ counting /\ under /\ kAdd = 0
    /\ Len(SubsOf(TrackedAddr)) > 0
    /\ TrackedAddr \in DOMAIN listeners
    /\ ~tasks[listeners[TrackedAddr]].cancelled

\* C6: every PublishNotification call of a listener task carries a
\* transaction its block scan handed off, one with a non-empty set of
\* transfers; never the zero Transaction; and no handed-off transaction is
\* published more than once.
C6_PublishedOnlyHandedOff ==
    /\ \A p \in published :
          /\ p \in handedOff
          /\ p[2] # ZeroTransaction
          /\ Len(p[2].transfers) > 0
    /\ repeated \cap handedOff = {}

SubscriptionFailed(t) ==
    IF t \in TaskIds THEN tasks[t].failed ELSE FALSE

ListenerExited(t) ==
    IF t \in TaskIds THEN tasks[t].lpc = "exited" ELSE FALSE

\* C7: when the header subscription of a watched address has failed, at
\* subscribing or later, the listener task of the address eventually returns,
\* without its context being cancelled.
C7_FailedListenerTerminates ==
    \A t \in 1..MaxTasks :
        [](SubscriptionFailed(t) => <>ListenerExited(t))

\* C8: every notification handed to the publisher for address W has
\* its transfers field equal to the transfers of its transaction whose from
\* or to is W.
C8_NotificationTransfersNarrowed ==
    \A t \in TaskIds :
        tasks[t].lpc = "publish" =>
            LET n == tasks[t].notification
            IN  /\ n.walletAddress = tasks[t].addr
                /\ n.transfers =
                      filterTransfersForAddress(n.transaction.transfers,
                                                HexToAddress(n.walletAddress))
                /\ (<<t, n.transaction>> \in handedOff => Len(n.transfers) > 0)

\* C9: once the context is cancelled and stopAllListeners has run, both maps
\* are empty and every task is cancelled, in that state and in every later one.
C9_ShutdownIsFinal ==
    stopped =>
        /\ DOMAIN listeners = {}
        /\ DOMAIN subscribers = {}
        /\ \A t \in TaskIds : tasks[t].cancelled

\* C10: a getTokenSymbol call whose external symbol call failed returns the
\* truncated address and leaves the token cache as it was.
C10_FailedCallNotCached ==
    [][\A r \in ResolverIds :
        (resolvers[r].pc = "store" /\ ~resolvers[r].ok /\ resolvers'[r].pc = "idle") =>
            /\ resolvers'[r].result = HexPrefix(resolvers[r].token)
            /\ tokenCache' = tokenCache]_vars

\* C11: a getTokenSymbol call entered after a call for the same address has
\* returned from a successful external call issues no external call and
\* returns the symbol that call gave; a getTokenSymbol for the zero address
\* issues no external call and returns the native symbol.
C11_ResolvedSymbolIsStable ==
    /\ [](\A r \in ResolverIds :
            (resolvers[r].after \/ (resolvers[r].pc # "idle" /\ resolvers[r].token = ZeroAddress))
                => resolvers[r].pc \notin {"call", "store"})
    /\ [][\A r \in ResolverIds :
            (resolvers[r].pc # "idle" /\ resolvers'[r].pc = "idle") =>
                /\ resolvers[r].after =>
                      resolvers'[r].result = ContractSymbol(resolvers[r].token)
                /\ resolvers[r].token = ZeroAddress =>
                      resolvers'[r].result = NativeSymbol]_vars

\* C12: the hand-off channel of a listener never holds more than its
\* capacity; it is a FIFO queue; a scan that finds it full while the context
\* is not cancelled drops the transaction it was handing off, keeps the queue
\* as it is and moves on to the next transaction of the block; and a scan in
\* its loop can always take its next step, whatever the consumer does.
C12_HandOffBoundedNonBlocking ==
    /\ [](\A t \in TaskIds :
            /\ Len(tasks[t].txChan) <= TxChanCapacity
            /\ tasks[t].spc = "scan" => ENABLED processBlockForAddress(t))
    /\ [][\A t \in TaskIds :
            LET old == tasks[t].txChan
                new == tasks'[t].txChan
            IN  /\ \/ new = old
                   \/ Len(old) > 0 /\ new = Tail(old) /\ tasks'[t].tx = Head(old)
                   \/ Len(new) = Len(old) + 1 /\ SubSeq(new, 1, Len(old)) = old
                /\ (/\ processBlockForAddress(t)
                    /\ Len(old) = TxChanCapacity
                    /\ ~tasks[t].cancelled) =>
                        /\ new = old
                        /\ handedOff' = handedOff
                        /\ IF Len(tasks[t].block) > 1
                           THEN /\ tasks'[t].spc = "scan"
                                /\ tasks'[t].block = Tail(tasks[t].block)
                           ELSE tasks'[t].spc = "select"]_vars

\* the channel is full, the first payment of the block being scanned was
\* dropped and the scan is at the second payment of that block
C12_Witness ==
    \E t \in TaskIds :
        /\ Len(tasks[t].txChan) = TxChanCapacity
        /\ ~tasks[t].cancelled
        /\ tasks[t].spc = "scan"
        /\ Len(tasks[t].block) = 1
        /\ \A p \in handedOff : p[2].hash # HashHex(<<tasks[t].blockNumber, 1>>)
        /\ \A i \in 1..(TxChanCapacity - 1) :
              tasks[t].txChan[i].blockNumber <= tasks[t].txChan[i + 1].blockNumber

\* C13: isAddressInvolved returns true exactly when the address is the sender
\* of the transaction, or its direct recipient, or the from or to topic of a
\* receipt log with the transfer-event signature and at least three topics;
\* also for a transaction whose sender the EIP-155 signer does not recover.
C13_InvolvedIffSenderRecipientOrTopic ==
    ret.involved # << >> =>
        ret.involved[1] =
            (\/ args.address = args.tx.sender
             \/ args.tx.to # NoTo /\ args.address = args.tx.to
             \/ \E i \in 1..Len(args.tx.logs) :
                   LET log == args.tx.logs[i]
                   IN  /\ Len(log.topics) >= 3
                       /\ log.topics[1] = TransferEventSignature
                       /\ args.address \in {log.topics[2], log.topics[3]})

\* the positions, counted from 1, of the transfers with LogIndex -1
NativePositions(transfers) ==
    {k \in 1..Len(transfers) : transfers[k].logIndex = -1}

\* C14: extractAllTransfers yields exactly one transfer with logIndex -1 when
\* the value of the transaction is greater than zero: the first of the result,
\* with the value of the transaction, the native symbol and the zero token
\* address; and none when the value is zero.
C14_OneNativeTransferFirst ==
    ret.extracted # << >> =>
        LET transfers == ret.extracted[1]
        IN  IF args.tx.value > 0
            THEN /\ NativePositions(transfers) = {1}
                 /\ transfers[1].value = args.tx.value
                 /\ transfers[1].tokenSymbol = "XPL"
                 /\ transfers[1].tokenAddress = Hex(ZeroAddress)
            ELSE NativePositions(transfers) = {}

\* a transaction with native value and two Transfer logs: three transfers,
\* the native one first
C14_Witness ==
    /\ ret.extracted # << >>
    /\ args.tx.value = 2
    /\ Len(ret.extracted[1]) = 3
    /\ ret.extracted[1][1].logIndex = -1
    /\ ret.extracted[1][2].logIndex = 0

\* the positions, counted from 0, of the receipt logs that are Transfer events
MatchingLogs(logs) ==
    {i \in 0..(Len(logs) - 1) :
        /\ Len(logs[i + 1].topics) >= 3
        /\ logs[i + 1].topics[1] = TransferEventSignature}

\* C15: extractAllTransfers yields one token transfer for each receipt log
\* with the transfer-event signature and at least three topics, with logIndex
\* the zero-based position of the log, from and to its topics 1 and 2 and
\* token address the emitting contract; none for any other log; and the token
\* transfers in strictly increasing logIndex order.
C15_OneTokenTransferPerMatchingLog ==
    ret.extracted # << >> =>
        LET all   == ret.extracted[1]
            token == SelectSeq(all, LAMBDA tr : tr.logIndex # -1)
            logs  == args.tx.logs
        IN  /\ Len(token) = Cardinality(MatchingLogs(logs))
            /\ \A k \in 1..Len(token) :
                  /\ token[k].logIndex \in MatchingLogs(logs)
                  /\ LET log == logs[token[k].logIndex + 1]
                     IN  /\ token[k].from = Hex(log.topics[2])
                         /\ token[k].to = Hex(log.topics[3])
                         /\ token[k].tokenAddress = Hex(log.address)
                         /\ token[k].value = log.data
            /\ \A k \in 1..(Len(token) - 1) : token[k].logIndex < token[k + 1].logIndex
            /\ \A k \in 1..Len(all) :
                  all[k].logIndex = -1 \/ all[k] = token[k - Cardinality(NativePositions(all))]

\* the receipt holds a log that is no Transfer event before one that is: the
\* only token transfer has logIndex 1
C15_Witness ==
    /\ ret.extracted # << >>
    /\ MatchingLogs(args.tx.logs) = {1}
    /\ \E k \in 1..Len(ret.extracted[1]) : ret.extracted[1][k].logIndex = 1
    /\ \A k \in 1..Len(ret.extracted[1]) : ret.extracted[1][k].logIndex # 0

\* transaction y comes before transaction x in the order of delivery: its
\* header was delivered earlier, or it stands earlier in the same block
DeliveredBefore(y, x) ==
    \/ y.hash[2][1] < x.hash[2][1]
    \/ y.hash[2][1] = x.hash[2][1] /\ y.hash[2][2] < x.hash[2][2]

\* C16: a listener publishes in hand-off order: when it publishes the
\* notification of a transaction, every transaction it has published before
\* was delivered before that one, and every transaction handed off that was
\* delivered before that one has been published already.
C16_PublishedInDeliveryOrder ==
    [][\A t \in TaskIds :
        PublishNotification(t) =>
            LET x == tasks[t].notification.transaction
            IN  \A p \in published \cup handedOff :
                    p[1] = t =>
                        /\ p \in published => DeliveredBefore(p[2], x)
                        /\ DeliveredBefore(p[2], x) => p \in published]_vars

\* both payments of the first block are published, the first payment of the
\* second block is about to be, and later ones wait in the channel
C16_Witness ==
    \E t \in TaskIds :
        /\ tasks[t].lpc = "publish"
        /\ tasks[t].notification.transaction.hash = HashHex(<<2, 1>>)
        /\ Len(tasks[t].txChan) > 1
        /\ {p[2].hash : p \in {q \in published : q[1] = t}}
              = {HashHex(<<1, 1>>), HashHex(<<1, 2>>)}

\* C17: a PublishNotification that fails is not retried and does not stop the
\* listener: whatever it returns, the listener is back at its select with
\* the subscription state and its context and channel as they were; a publish
\* is attempted only from a handleTransaction, which is entered only by a
\* receive, so no transaction is published twice; and a listener whose
\* publish failed has not returned.
C17_PublishFailureIsNotRetried ==
    /\ [](/\ repeated = {}
          /\ \A t \in TaskIds : tasks[t].err => tasks[t].lpc # "exited")
    /\ [][\A t \in TaskIds :
            /\ PublishNotification(t) =>
                  /\ tasks'[t].lpc = "loop"
                  /\ listeners' = listeners
                  /\ subscribers' = subscribers
                  /\ tasks'[t].cancelled = tasks[t].cancelled
                  /\ tasks'[t].txChan = tasks[t].txChan
                  /\ tasks'[t].closed = tasks[t].closed
            /\ (tasks'[t].lpc = "publish" /\ tasks[t].lpc # "publish") =>
                  tasks[t].lpc = "handle"
            /\ (tasks'[t].lpc = "handle" /\ tasks[t].lpc # "handle") =>
                  ListenerReceive(t)]_vars

\* the latest publish of the listener failed, and the listener has received
\* the next transaction and is about to publish its notification
C17_Witness ==
    \E t \in TaskIds :
        /\ tasks[t].err
        /\ tasks[t].lpc = "publish"
        /\ tasks[t].notification.transaction.hash = HashHex(<<1, 2>>)
        /\ <<t, tasks[t].notification.transaction>> \notin published
        /\ \E p \in published : p[1] = t /\ p[2].hash = HashHex(<<1, 1>>)

\* the payloads of Payloads that are not the encoding of a command
UndecodablePayloads == Payloads \ {Marshal(cmd) : cmd \in Commands}

\* C18: a handler run for a command whose type is neither add_wallet nor
\* remove_wallet leaves the listeners map, the subscribers map and every
\* listener task unchanged; consuming a payload that does not decode starts
\* no handler, changes none of the maps and leaves the consumer in its loop
C18_UnknownAndUndecodableAreDropped ==
    [][/\ \A cmd \in Commands :
            (cmd.type \notin {AddWalletCommand, RemoveWalletCommand}
                /\ inflight'[cmd] < inflight[cmd]) =>
                    UNCHANGED <<listeners, subscribers, tasks>>
       /\ \A payload \in UndecodablePayloads :
            Consume(payload) =>
                /\ inflight' = inflight
                /\ UNCHANGED <<listeners, subscribers, tasks>>
                /\ ~consumerDone'
                /\ ctxDone' = ctxDone]_vars

C18_Witness ==
    /\ logged = {UnmarshalFailed, UnknownCommandType}
    /\ ~consumerDone
    /\ DOMAIN listeners # {}
    /\ \E cmd \in Commands : inflight[cmd] > 0

\* the listener of walletAddress returned because SubscribeToAddress failed,
\* and its cancel function is still the entry of the listeners map
StaleListener(walletAddress) ==
    /\ walletAddress \in DOMAIN listeners
    /\ LET task == tasks[listeners[walletAddress]]
       IN  /\ task.lpc = "exited"
           /\ task.failed
           /\ ~task.cancelled

TransferInvolves(transfer, address) ==
    \/ HexToAddress(transfer.from) = address
    \/ HexToAddress(transfer.to) = address

\* the positions of the transfers of a list that name the address
InvolvedPositions(transfers, address) ==
    {i \in 1..Len(transfers) : TransferInvolves(transfers[i], address)}

\* narrowed holds the transfers of extracted that name the address, each
\* once, in the order extracted has them
NarrowedInOrder(narrowed, extracted, address) ==
    LET positions == InvolvedPositions(extracted, address)
    IN  /\ Len(narrowed) = Cardinality(positions)
        /\ \A i \in positions :
              narrowed[Cardinality({j \in positions : j <= i})] = extracted[i]

\* the step is one iteration of the block scan of task t that sends on txChan
HandsOff(t) ==
    /\ tasks[t].spc = "scan"
    /\ Len(tasks'[t].txChan) > Len(tasks[t].txChan)

C21_FetchFailureSkipsOneItem ==
    /\ [](\A t \in TaskIds :
            /\ tasks[t].spc = "scan" =>
                  LET task == tasks[t]
                  IN  /\ Len(task.block) >= 1
                      /\ \A i \in 1..Len(task.block) :
                            task.block[i].hash =
                                <<task.blockNumber,
                                  Len(BurstBody) - Len(task.block) + i>>
                      /\ \A p \in handedOff :
                            p[1] = t =>
                                \A i \in 1..Len(task.block) :
                                    p[2].hash # HashHex(task.block[i].hash)
            /\ (tasks[t].spc = "select" /\ headers < MaxFetchHeaders) =>
                  ENABLED FetchHeader(t))
    /\ [][\A t \in TaskIds :
            /\ ScanTransaction(t, {FALSE}) =>
                  /\ handedOff' = handedOff
                  /\ tasks'[t].txChan = tasks[t].txChan
                  /\ tasks'[t].blockNumber = tasks[t].blockNumber
                  /\ IF Len(tasks[t].block) > 1
                     THEN /\ tasks'[t].spc = "scan"
                          /\ tasks'[t].block = Tail(tasks[t].block)
                     ELSE tasks'[t].spc = "select"
            /\ DeliverHeader(t, FetchBodies, {FALSE}, MaxFetchHeaders) =>
                  /\ tasks' = tasks
                  /\ handedOff' = handedOff
                  /\ headers' = headers + 1]_vars

\* nothing of the first block was handed off, and of the second block the
\* second transaction only: the scan went on after each failure
C21_Witness ==
    /\ headers = 2
    /\ \E t \in TaskIds :
          /\ tasks[t].spc = "select"
          /\ Len(tasks[t].txChan) = 1
          /\ tasks[t].txChan[1].hash = HashHex(<<2, 2>>)
          /\ \A p \in handedOff : p[2].hash = HashHex(<<2, 2>>)

\* the context of task t has been cancelled
ContextCancelled(t) ==
    IF t \in TaskIds THEN tasks[t].cancelled ELSE FALSE

\* both goroutines of task t have returned; the scan goroutine, where
\* SubscribeToAddress started one, has closed the hand-off channel
GoroutinesExited(t) ==
    IF t \in TaskIds
    THEN /\ tasks[t].lpc = "exited"
         /\ \/ tasks[t].spc = "none"
            \/ tasks[t].spc = "exited" /\ tasks[t].closed
    ELSE FALSE

\* C22: once the context of a listener is cancelled, both of its goroutines
\* eventually return, the scan goroutine closing the hand-off channel; and a
\* block scan in flight at a cancelled context is given up: its next step
\* leaves the block, examines no further transaction and hands off nothing.
C22_CancelledListenerExits ==
    /\ \A t \in 1..MaxTasks : [](ContextCancelled(t) => <>GoroutinesExited(t))
    /\ [][\A t \in TaskIds :
            (tasks[t].cancelled /\ tasks[t].spc = "scan" /\ tasks'[t] # tasks[t]) =>
                /\ tasks'[t].spc # "scan"
                /\ tasks'[t].txChan = tasks[t].txChan
                /\ handedOff' = handedOff]_vars

\* how often cmd occurs in the sequence order
Occurrences(order, cmd) ==
    Cardinality({i \in 1..Len(order) : order[i] = cmd})

\* C23: the consumer takes the next command whether or not handlers are
\* still running; consuming a command starts its handler, in the order of
\* consumption, and runs none of it; a handler runs only for a consumed
\* command; and of the handlers in flight any one may run next, whatever the
\* order in which their commands were consumed.
C23_HandlersFireAndForget ==
    /\ []((~consumerDone /\ Total(inflight) < MaxInflight
            /\ Len(consumed.order) < MaxConsumed) =>
                \A cmd \in RaceCommands : ENABLED Consume(Marshal(cmd)))
    /\ [](\A cmd \in Commands :
            /\ inflight[cmd] <= Occurrences(consumed.order, cmd)
            /\ (/\ inflight[cmd] > 0
                /\ cmd.type = AddWalletCommand => AddWithinBounds(cmd.walletAddress)) =>
                    ENABLED HandleCommand(cmd))
    /\ [][\A cmd \in RaceCommands :
            Consume(Marshal(cmd)) =>
                /\ consumed'.order = Append(consumed.order, cmd)
                /\ inflight' = [inflight EXCEPT ![cmd] = @ + 1]
                /\ UNCHANGED <<listeners, subscribers, tasks>>]_vars

\* add_wallet was consumed before remove_wallet, both handlers have finished,
\* and the address is watched with the user as its one subscriber: the remove
\* ran first, on the empty list
C23_Witness ==
    /\ consumed.order =
          <<[type |-> AddWalletCommand, walletAddress |-> Hex("a1"), userID |-> 1],
            [type |-> RemoveWalletCommand, walletAddress |-> Hex("a1"), userID |-> 1]>>
    /\ Total(inflight) = 0
    /\ Hex("a1") \in DOMAIN listeners
    /\ SubsOf(Hex("a1")) = <<1>>

\* the goroutines that hold wt.mu
Holders ==
    (IF mu.writer = NoGoroutine THEN {} ELSE {mu.writer}) \cup mu.readers

\* C24: the write lock excludes every other holder; a step that changes the
\* listeners map or the subscribers map is the body of AddWallet,
\* RemoveWallet or stopAllListeners taken by the goroutine that holds the
\* write lock, and the subscriber snapshot is copied by a goroutine that
\* holds a read lock; a goroutine holds the lock only between its Lock and
\* Unlock, or RLock and RUnlock; and neither a listener that is subscribing
\* to the header stream nor one that is publishing holds the lock.
C24_MapsUnderLockNoNetworkUnderLock ==
    /\ [](/\ mu.writer # NoGoroutine => mu.readers = {}
          /\ \A g \in Goroutines :
                /\ (g = mu.writer) <=> (goroutines[g].pc \in {"locked", "unlock"})
                /\ (g \in mu.readers) <=> (goroutines[g].pc \in {"rlocked", "runlock"})
                /\ goroutines[g].pc = "publish" => g \notin Holders
          /\ \A t \in TaskIds :
                tasks[t].lpc = "subscribe" => <<"listener", t>> \notin Holders)
    /\ [][/\ <<listeners, subscribers>>' # <<listeners, subscribers>> =>
                /\ mu.writer # NoGoroutine
                /\ mu' = mu
                /\ goroutines[mu.writer].pc = "locked"
                /\ goroutines'[mu.writer].pc = "unlock"
          /\ \A g \in Goroutines :
                (goroutines[g].pc = "rlocked" /\ goroutines'[g].pc # "rlocked") =>
                    /\ g \in mu.readers
                    /\ mu.writer = NoGoroutine
                    /\ mu' = mu
                    /\ goroutines'[g].snapshot = SubsOf(goroutines[g].walletAddress)
          /\ \A t \in TaskIds :
                ListenerSubscribe(t) => <<"listener", t>> \notin Holders]_vars

\* a listener is publishing with its snapshot while a handler holds the write
\* lock, has changed the subscriber list and the other handler waits
C24_Witness ==
    \E g \in ListenerGoroutines, h \in Handlers, w \in Handlers :
        /\ goroutines[g].pc = "publish"
        /\ mu.writer = h
        /\ goroutines[h].pc = "unlock"
        /\ goroutines[g].snapshot # SubsOf(goroutines[g].walletAddress)
        /\ goroutines[w].pc = "lock"

\* C25: a listener task whose context is cancelled receives no further
\* transaction from its hand-off channel, open or closed, assembles no
\* notification and makes no publish call, whether or not the address has
\* been subscribed again.
C25_CancelledListenerPublishesNothing ==
    [][\A t \in TaskIds :
        tasks[t].cancelled =>
            /\ ~(tasks[t].lpc = "loop" /\ tasks'[t].lpc = "handle")
            /\ ~(tasks[t].lpc = "handle" /\ tasks'[t].lpc = "publish")
            /\ ~PublishNotification(t)]_vars

\* C26: a listener that is about to publish holds a non-empty subscriber
\* list; the list is the one the manager held for the address in the step
\* that copied it under the read lock; a listener whose copy is empty
\* returns without publishing; and from the copy to the return of
\* handleTransaction no step of another goroutine, an AddWallet or
\* RemoveWallet among them, changes the list.
C26_NotificationCarriesSnapshot ==
    /\ [](\A g \in Goroutines :
            goroutines[g].pc = "publish" => Len(goroutines[g].snapshot) >= 1)
    /\ [][\A g \in Goroutines :
            /\ (goroutines[g].pc = "rlocked" /\ goroutines'[g].pc = "runlock") =>
                  /\ g \in mu.readers
                  /\ goroutines'[g].snapshot = SubsOf(goroutines[g].walletAddress)
                  /\ subscribers' = subscribers
            /\ goroutines[g].pc = "runlock" =>
                  \/ goroutines'[g].snapshot = goroutines[g].snapshot
                  \/ /\ goroutines[g].snapshot = << >>
                     /\ goroutines'[g].pc = "idle"
            /\ (goroutines[g].pc = "runlock" /\ goroutines[g].snapshot = << >>) =>
                  goroutines'[g].pc # "publish"
            /\ goroutines[g].pc = "publish" =>
                  \/ goroutines'[g].snapshot = goroutines[g].snapshot
                  \/ goroutines'[g].pc = "idle"]_vars

\* a listener is about to publish to users 1 and 2, in this order, while a
\* RemoveWallet of user 1 has run since the copy
C26_Witness ==
    \E g \in ListenerGoroutines :
        /\ goroutines[g].pc = "publish"
        /\ goroutines[g].snapshot = <<1, 2>>
        /\ SubsOf(goroutines[g].walletAddress) = <<2>>

\* C27: an entry of the token cache is never removed and never replaced by
\* a different symbol, however the concurrent getTokenSymbol calls for its
\* address interleave and whichever of their external calls fail.
C27_CacheEntriesAreStable ==
    [][\A tokenAddress \in DOMAIN tokenCache :
        /\ tokenAddress \in DOMAIN tokenCache'
        /\ tokenCache'[tokenAddress] = tokenCache[tokenAddress]]_vars

====
